---- MODULE Spec2Model ----
(***************************************************************************)
(* Model of the RingApp backend (src/app.py, src/scenarios.py): the        *)
(* conversation store and the three request handlers start_call,           *)
(* process_audio and end_call, each split at its store operations so that  *)
(* requests served by different Flask worker threads can interleave.       *)
(*                                                                         *)
(* Text is a sequence of one-character strings.  A Python value that may   *)
(* be None is a sequence of length at most one: None is << >> and a value  *)
(* v is << v >>.                                                            *)
(***************************************************************************)
EXTENDS Integers, Sequences, FiniteSets, TLC

\* ------------------------------------------------------------------ bounds
MaxRequests == 4     \* requests accepted in one behaviour
MaxOverlap == 3      \* requests accepted in one behaviour of OverlapSpec
ExMaxTurns == 3      \* turns of a document handed to the utterance extraction
ExMaxLen == 2        \* characters of one user_text handed to it
ExMaxChars == 3      \* largest max_chars handed to it
MaxScenarios == 2    \* entries of a catalog handed to the scenario lookup

\* ------------------------------------------------------------ Python values
None == << >>
Some(v) == << v >>
IsNone(o) == o = << >>
Get(o) == o[1]

Last(s) == s[Len(s)]

IsSpace(c) == c = " "

RECURSIVE LStrip(_)
LStrip(s) == IF s # << >> /\ IsSpace(Head(s)) THEN LStrip(Tail(s)) ELSE s

RECURSIVE RStrip(_)
RStrip(s) ==
    IF s # << >> /\ IsSpace(s[Len(s)]) THEN RStrip(SubSeq(s, 1, Len(s) - 1)) ELSE s

\* str.strip()
Strip(s) == RStrip(LStrip(s))

\* `x or y` on strings
Or(x, y) == IF x # << >> THEN x ELSE y

\* -------------------------------------------------------- external providers
\* What a provider call can produce: a text, or an exception.
Raises == [raised |-> TRUE, text |-> << >>]
Returns(t) == [raised |-> FALSE, text |-> t]

\* resp.text of the Dialogue Provider (chat mode)
ChatTexts == { << >>, <<" ">>, <<"h", "i">> }
ChatOutcomes == {Raises} \cup {Returns(t) : t \in ChatTexts}

\* transcribe_wav() results before the `or ""` and the strip
SttTexts == { << >>, <<" ">>, <<"a">>, <<" ", "b">> }
SttOutcomes == {Raises} \cup {Returns(t) : t \in SttTexts}

\* Literal texts of the source, abbreviated to one token each.
OPENER_FALLBACK == <<"Let's begin.">>
OPENER_ERROR == <<"(Gemini error creating opener)">>
REPLY_FALLBACK == <<"I couldn't quite hear that.">>
REPLY_ERROR == <<"(Gemini error)">>

\* A variant of GeminiOpening that lacks the fallback line for a blank reply.
GeminiOpeningNoFallback(outcome) ==
    IF outcome.raised THEN OPENER_ERROR ELSE Strip(Or(outcome.text, << >>))

\* gemini_opening_for_scenario: lines 64-68
GeminiOpening(outcome) ==
    IF outcome.raised THEN OPENER_ERROR
    ELSE Or(Strip(Or(outcome.text, << >>)), OPENER_FALLBACK)

\* generate_ai_text: lines 302-312
GenerateAiText(outcome) ==
    IF outcome.raised THEN REPLY_ERROR
    ELSE LET ai_text == Strip(Or(outcome.text, << >>))
         IN  IF ai_text = << >> THEN REPLY_FALLBACK ELSE ai_text

\* transcribe_audio_stt: lines 173-174 (the success path)
TranscribeText(raw) == Strip(Or(raw, << >>))

\* ------------------------------------------------------------- JSON values
\* A JSON value is a record: t names the type, n carries a number, str a
\* string, items the members of a list (key "") or of an object (key, value).
JNull == [t |-> "null", n |-> 0, str |-> << >>, items |-> << >>]
JInt(n) == [t |-> "int", n |-> n, str |-> << >>, items |-> << >>]
JStr(s) == [t |-> "str", n |-> 0, str |-> s, items |-> << >>]
JList(vals) ==
    [t |-> "list", n |-> 0, str |-> << >>,
     items |-> [i \in 1..Len(vals) |-> [k |-> "", val |-> vals[i]]]]
JDict(entries) == [t |-> "dict", n |-> 0, str |-> << >>, items |-> entries]
KV(k, val) == [k |-> k, val |-> val]

\* `k in d` and d[k] of a Python dict; d[k] of anything else raises.
HasKey(j, k) == j.t = "dict" /\ \E i \in 1..Len(j.items) : j.items[i].k = k
JGet(j, k) == j.items[CHOOSE i \in 1..Len(j.items) : j.items[i].k = k].val

\* A text handed to json.loads: well-formed JSON encoding `val`, or not JSON.
JsonText(val) == [wf |-> TRUE, val |-> val, raw |-> << >>]
NotJson(raw) == [wf |-> FALSE, val |-> JNull, raw |-> raw]

\* json.dumps / json.loads
JsonDumps(val) == JsonText(val)
JsonLoads(text) == IF text.wf THEN [ok |-> TRUE, val |-> text.val]
                   ELSE [ok |-> FALSE, val |-> JNull]

Correction ==
    JDict(<<KV("before", JStr(<<"x">>)), KV("after", JStr(<<"y">>))>>)

\* The Feedback structure the evaluation prompt asks for (lines 231-240).
FeedbackJson(corrections, issues) ==
    JDict(<<KV("success_percentage", JInt(80)),
            KV("grammar_feedback", corrections),
            KV("grammar_issues", JInt(issues)),
            KV("turns", JInt(1))>>)

\* What the evaluator model can answer (resp.text), besides raising.
EvalTexts ==
    { NotJson(<<" ", "S", "u", "r", "e">>),
      JsonText(FeedbackJson(JNull, 0)),
      JsonText(FeedbackJson(JList(<< >>), 0)),
      JsonText(FeedbackJson(JList(<<Correction>>), 1)),
      JsonText(FeedbackJson(JList(<<Correction>>), 2)) }
EvalRaises == [raised |-> TRUE, text |-> NotJson(<< >>)]
EvalOutcomes == {EvalRaises} \cup {[raised |-> FALSE, text |-> t] : t \in EvalTexts}

\* end_call lines 420-429: the text that goes to the parser
FeedbackText(outcome) ==
    IF outcome.raised
    THEN JsonDumps(JDict(<<KV("error", JStr(<<"feedback_generation_failed">>)),
                           KV("detail", JStr(<<"e">>))>>))
    ELSE [outcome.text EXCEPT !.raw = Strip(Or(@, << >>))]

\* end_call lines 432-437
ParseFeedback(feedback_text) ==
    LET parsed == JsonLoads(feedback_text)
    IN  IF parsed.ok THEN parsed.val
        ELSE JDict(<<KV("raw", JStr(feedback_text.raw))>>)

\* end_call lines 454-461: building the response body raises unless the
\* feedback is a dict whose "grammar_feedback" is a list of dicts with "before"
\* and "after", and which has "success_percentage".
ResponseBuilds(feedback) ==
    /\ HasKey(feedback, "grammar_feedback")
    /\ JGet(feedback, "grammar_feedback").t = "list"
    /\ \A i \in 1..Len(JGet(feedback, "grammar_feedback").items) :
          LET item == JGet(feedback, "grammar_feedback").items[i].val
          IN  HasKey(item, "before") /\ HasKey(item, "after")
    /\ HasKey(feedback, "success_percentage")

\* ------------------------------------------------------- scenario catalog
\* SCENARIOS, in insertion order; loaded once (scenarios.py lines 6-9).
SCENARIOS == << [key |-> <<"office">>, title |-> <<"O", "f">>] >>

LowerChar(c) == CASE c = "O" -> "o" [] c = "F" -> "f" [] OTHER -> c
Lower(s) == [i \in 1..Len(s) |-> LowerChar(s[i])]

GENERAL == <<"General">>

\* A variant of FallbackKeys that always answers with the fixed key.
FallbackKeysFixed(catalog) == {GENERAL}

\* random.choice(list(SCENARIOS.keys())) if SCENARIOS else "General"
FallbackKeys(catalog) ==
    IF catalog # << >> THEN {catalog[i].key : i \in 1..Len(catalog)} ELSE {GENERAL}

\* find_scenario_key_by_title: the set of keys a call can return
FindScenarioKeyByTitle(catalog, title) ==
    LET matches == {i \in 1..Len(catalog) : Lower(catalog[i].title) = Lower(title)}
    IN  IF title = << >> THEN FallbackKeys(catalog)
        ELSE IF matches # {}
             THEN {catalog[CHOOSE i \in matches : \A j \in matches : i <= j].key}
             ELSE FallbackKeys(catalog)

ScenarioTitles == { << >>, <<"o", "f">>, <<"z">> }

\* ----------------------------------------------------- utterance extraction
DEFAULT_MAX_CHARS == 6000
PLACEHOLDER == <<"(no user speech captured)">>

\* A variant of OverBudget that treats an exact fit as too long.
OverBudgetAtLimit(total, n, max_chars) == total + n >= max_chars

\* Line 200 and line 203: would adding n characters exceed the budget?
OverBudget(total, n, max_chars) == total + n > max_chars

\* Lines 203-205: pop from the front while the buffer is non-empty and the
\* new utterance does not fit.  st is the pair [buf, total].
RECURSIVE PopOldest(_, _, _)
PopOldest(st, n, max_chars) ==
    IF st.buf # << >> /\ OverBudget(st.total, n, max_chars)
    THEN PopOldest([buf |-> Tail(st.buf), total |-> st.total - Len(Head(st.buf))],
                   n, max_chars)
    ELSE st

\* Lines 200-207: one non-empty utterance ut enters the buffer.
AddUtterance(st, ut, max_chars) ==
    LET kept == IF OverBudget(st.total, Len(ut), max_chars)
                THEN PopOldest(st, Len(ut), max_chars)
                ELSE st
    IN  [buf |-> Append(kept.buf, ut), total |-> kept.total + Len(ut)]

\* Lines 197-207: the loop over the turns, from turn i on.
RECURSIVE ExtractLoop(_, _, _, _)
ExtractLoop(turns, i, st, max_chars) ==
    IF i > Len(turns) THEN st
    ELSE LET user_text == turns[i].user_text
             ut == Strip(IF IsNone(user_text) THEN << >> ELSE Get(user_text))
         IN  ExtractLoop(turns, i + 1,
                         IF ut # << >> THEN AddUtterance(st, ut, max_chars) ELSE st,
                         max_chars)

\* Line 208: "\n".join(f"- {u}" for u in buf)
RECURSIVE JoinLines(_)
JoinLines(buf) ==
    IF buf = << >> THEN << >>
    ELSE <<"-", " ">> \o Head(buf)
         \o (IF Tail(buf) = << >> THEN << >> ELSE <<"\n">> \o JoinLines(Tail(buf)))

\* _extract_user_utterances(conversation_doc, max_chars)
ExtractUserUtterances(turns, max_chars) ==
    LET buf == ExtractLoop(turns, 1, [buf |-> << >>, total |-> 0], max_chars).buf
    IN  IF buf # << >> THEN JoinLines(buf) ELSE PLACEHOLDER

\* ------------------------------------------------------------------- state
Workers == {"w1", "w2"}
UserIds == {"u1"}
NoId == "none"

VARIABLES
    users_collection,          \* ids of the stored users
    conversations_collection,  \* the stored conversation documents, by conv id
    pc,                        \* per worker: where its request is
    conv_id,                   \* per worker: the conversation of its request
    conversation,              \* per worker: the document it read (None if none)
    user_response,             \* per worker: the transcript
    response,                  \* status of the response the last step sent
    nreq,                      \* requests accepted so far
    ex_turns,                  \* extraction: the conversation array handed in
    ex_max_chars,              \* extraction: its max_chars
    ex_result,                 \* extraction: what it returned (None before)
    sc_catalog,                \* scenario lookup: the catalog it reads
    sc_title,                  \* scenario lookup: the title handed in
    sc_result                  \* scenario lookup: the key returned (None before)

appvars == <<users_collection, conversations_collection, pc, conv_id, conversation,
             user_response, response, nreq>>

exvars == <<ex_turns, ex_max_chars, ex_result>>

scvars == <<sc_catalog, sc_title, sc_result>>

vars == <<appvars, exvars, scvars>>

locals == <<conv_id, conversation, user_response>>

ConvIds == 1..Len(conversations_collection)

Turn(n, ut, at) == [turn |-> n, user_text |-> ut, ai_text |-> at]

\* A variant of IsOpen that does not look at user_text.
IsOpenAnyUserText(t) == t.ai_text # << >>

\* The check of process_audio line 339
IsOpen(t) == t.ai_text # << >> /\ IsNone(t.user_text)

\* The HTTP status a step answers with; None when it sends no response.
NoResponse == None

AppInit ==
    /\ users_collection = {}
    /\ conversations_collection = << >>
    /\ pc = [w \in Workers |-> "idle"]
    /\ conv_id = [w \in Workers |-> 0]
    /\ conversation = [w \in Workers |-> None]
    /\ user_response = [w \in Workers |-> << >>]
    /\ response = NoResponse
    /\ nreq = 0

\* The pure functions at rest: no call of them in progress.
ExtractIdle ==
    /\ ex_turns = << >>
    /\ ex_max_chars = DEFAULT_MAX_CHARS
    /\ ex_result = None

ScenarioIdle ==
    /\ sc_catalog = SCENARIOS
    /\ sc_title = << >>
    /\ sc_result = None

Init == AppInit /\ ExtractIdle /\ ScenarioIdle

\* A request that passes validation occupies an idle worker: the first one
\* (the worker threads are interchangeable).
FirstIdle(w) == pc[w] = "idle" /\ (w = "w2" => pc["w1"] # "idle")
Accept(w) == FirstIdle(w) /\ nreq < MaxRequests /\ nreq' = nreq + 1

\* A variant of Reject that has inserted a document before it answers.
RejectAfterInsert(w) ==
    /\ FirstIdle(w)
    /\ response' = Some(400)
    /\ conversations_collection' =
          Append(conversations_collection,
                 [user_id |-> NoId, scenario |-> GENERAL,
                  conversation |-> << >>, grammar_feedback |-> JNull])
    /\ UNCHANGED <<users_collection, pc, locals, nreq>>

\* A request that fails validation is answered at once.
Reject(w) ==
    /\ FirstIdle(w)
    /\ response' = Some(400)
    /\ UNCHANGED <<users_collection, conversations_collection, pc, locals, nreq>>

\* The worker answers with `code`; its locals die with the request.
Respond(w, code) ==
    /\ pc' = [pc EXCEPT ![w] = "idle"]
    /\ response' = Some(code)
    /\ conv_id' = [conv_id EXCEPT ![w] = 0]
    /\ conversation' = [conversation EXCEPT ![w] = None]
    /\ user_response' = [user_response EXCEPT ![w] = << >>]

Goto(w, label) == pc' = [pc EXCEPT ![w] = label] /\ response' = NoResponse

\* $push of one turn onto a document's conversation array
PushTurn(store, id, t) ==
    [store EXCEPT ![id].conversation = Append(@, t)]

\* A variant of SetUserText whose filter names the turn after the latest.
SetUserTextNextTurn(store, id, n, text) ==
    LET conv == store[id].conversation
        hits == {i \in 1..Len(conv) : conv[i].turn = n + 1}
    IN  IF hits = {} THEN store
        ELSE LET first == CHOOSE i \in hits : \A j \in hits : i <= j
             IN  [store EXCEPT ![id].conversation[first].user_text = Some(text)]

\* update_one({"_id": id, "conversation.turn": n},
\*            {"$set": {"conversation.$.user_text": text}}):
\* the positional operator updates the first array element that matches.
SetUserText(store, id, n, text) ==
    LET conv == store[id].conversation
        hits == {i \in 1..Len(conv) : conv[i].turn = n}
    IN  IF hits = {} THEN store
        ELSE LET first == CHOOSE i \in hits : \A j \in hits : i <= j
             IN  [store EXCEPT ![id].conversation[first].user_text = Some(text)]

\* $set of a document's grammar_feedback
SetFeedback(store, id, feedback) ==
    [store EXCEPT ![id].grammar_feedback = feedback]

\* -------------------------------------------------------------- create_user
\* Lines 55-66: one insert.
CreateUser ==
    /\ \E u \in UserIds \ users_collection :
          users_collection' = users_collection \cup {u}
    /\ response' = NoResponse
    /\ UNCHANGED <<conversations_collection, pc, locals, nreq>>
    /\ UNCHANGED <<exvars, scvars>>

\* --------------------------------------------------------------- start_call
\* The conversation document of lines 89-95
NewConversation(user_id, scenario_key) ==
    [user_id |-> user_id, scenario |-> scenario_key, conversation |-> << >>,
     grammar_feedback |-> JNull]

\* The first AI turn of lines 109-114
FirstTurn(text) == Turn(0, None, text)

\* Lines 74-84: a missing or unknown user_id.
StartCallReject(w) ==
    /\ \E user_id \in UserIds \cup {NoId} :
          user_id = NoId \/ user_id \notin users_collection
    /\ Reject(w)
    /\ UNCHANGED <<exvars, scvars>>

\* Lines 74-97: validation passes; the empty document is inserted.
StartCallBegin(w) ==
    /\ Accept(w)
    /\ \E user_id \in users_collection, title \in ScenarioTitles :
          \E scenario_key \in FindScenarioKeyByTitle(SCENARIOS, title) :
             conversations_collection' =
                Append(conversations_collection,
                       NewConversation(user_id, scenario_key))
    /\ conv_id' = [conv_id EXCEPT ![w] = Len(conversations_collection) + 1]
    /\ Goto(w, "sc_opener")
    /\ UNCHANGED <<users_collection, conversation, user_response>>
    /\ UNCHANGED <<exvars, scvars>>

\* Lines 104-115: the opener, then the push of turn 0.
StartCallOpener(w) ==
    /\ pc[w] = "sc_opener"
    /\ \E outcome \in ChatOutcomes :
          conversations_collection' =
             PushTurn(conversations_collection, conv_id[w],
                      FirstTurn(GeminiOpening(outcome)))
    /\ Goto(w, "sc_tts")
    /\ UNCHANGED <<users_collection, locals, nreq>>
    /\ UNCHANGED <<exvars, scvars>>

\* Lines 119-132: speech synthesis and the response.
StartCallTTS(w) ==
    /\ pc[w] = "sc_tts"
    /\ \E tts_ok \in BOOLEAN :
          Respond(w, IF tts_ok THEN 201 ELSE 500)
    /\ UNCHANGED <<users_collection, conversations_collection, nreq>>
    /\ UNCHANGED <<exvars, scvars>>

\* ------------------------------------------------------------ process_audio
\* A variant of NewTurnNumber that repeats the latest turn's number.
NewTurnNumberSame(last_turn) == last_turn.turn

\* Line 371
NewTurnNumber(last_turn) == last_turn.turn + 1

\* A variant of NewAiTurn whose user_text is the empty string, not None.
NewAiTurnAnswered(n, text) == Turn(n, Some(<< >>), text)

\* The AI-only turn of lines 374-379
NewAiTurn(n, text) == Turn(n, None, text)

\* Lines 321-330: missing conv_id or audio, or an unknown conversation.
ProcessAudioReject(w) ==
    /\ \E id \in 0..(Len(conversations_collection) + 1), audio_file \in BOOLEAN :
          id = 0 \/ ~audio_file \/ id \notin ConvIds
    /\ Reject(w)
    /\ UNCHANGED <<exvars, scvars>>

\* Lines 321-330: validation passes; the document is read.
ProcessAudioBegin(w) ==
    /\ Accept(w)
    /\ \E id \in ConvIds :
          /\ conv_id' = [conv_id EXCEPT ![w] = id]
          /\ conversation' =
                [conversation EXCEPT ![w] = Some(conversations_collection[id])]
    /\ Goto(w, "pa_stt")
    /\ UNCHANGED <<users_collection, conversations_collection, user_response>>
    /\ UNCHANGED <<exvars, scvars>>

\* A variant of ProcessAudioTranscribe that closes the latest turn with an
\* empty transcript before the transcription, which then fails.
ProcessAudioTranscribeWriteFirst(w) ==
    /\ pc[w] = "pa_stt"
    /\ LET turns == Get(conversation[w]).conversation
       IN  conversations_collection' =
              SetUserText(conversations_collection, conv_id[w],
                          Last(turns).turn, << >>)
    /\ Respond(w, 500)
    /\ UNCHANGED <<users_collection, nreq>>
    /\ UNCHANGED <<exvars, scvars>>

\* Lines 333-348: transcription (an exception ends the request), then the
\* latest turn of the document read at line 328 and, when it is open, the write
\* of the transcript.  An empty conversation array raises IndexError.
ProcessAudioTranscribe(w) ==
    /\ pc[w] = "pa_stt"
    /\ \E outcome \in SttOutcomes :
          LET turns == Get(conversation[w]).conversation
              text == TranscribeText(outcome.text)
          IN  IF outcome.raised \/ turns = << >>
              THEN /\ Respond(w, 500)
                   /\ UNCHANGED conversations_collection
              ELSE /\ user_response' = [user_response EXCEPT ![w] = text]
                   /\ conversations_collection' =
                         IF IsOpen(Last(turns))
                         THEN SetUserText(conversations_collection, conv_id[w],
                                          Last(turns).turn, text)
                         ELSE conversations_collection
                   /\ Goto(w, "pa_reply")
                   /\ UNCHANGED <<conv_id, conversation>>
    /\ UNCHANGED <<users_collection, nreq>>
    /\ UNCHANGED <<exvars, scvars>>

\* Lines 353-380: the second read, the context, the Dialogue Provider's reply
\* and the push of the new AI turn.  The second read feeds only the prompt; the
\* number of the new turn comes from the document read at line 328.
ProcessAudioReply(w) ==
    /\ pc[w] = "pa_reply"
    /\ \E outcome \in ChatOutcomes :
          LET last_turn == Last(Get(conversation[w]).conversation)
          IN  conversations_collection' =
                 PushTurn(conversations_collection, conv_id[w],
                          NewAiTurn(NewTurnNumber(last_turn), GenerateAiText(outcome)))
    /\ Goto(w, "pa_tts")
    /\ UNCHANGED <<users_collection, locals, nreq>>
    /\ UNCHANGED <<exvars, scvars>>

\* Lines 383-396: speech synthesis and the response.
ProcessAudioTTS(w) ==
    /\ pc[w] = "pa_tts"
    /\ \E tts_ok \in BOOLEAN :
          Respond(w, IF tts_ok THEN 200 ELSE 500)
    /\ UNCHANGED <<users_collection, conversations_collection, nreq>>
    /\ UNCHANGED <<exvars, scvars>>

\* ----------------------------------------------------------------- end_call
\* Lines 404-411: a missing conv_id or an unknown conversation.
EndCallReject(w) ==
    /\ \E id \in 0..(Len(conversations_collection) + 1) :
          id = 0 \/ id \notin ConvIds
    /\ Reject(w)
    /\ UNCHANGED <<exvars, scvars>>

\* Lines 404-416: validation passes; the document is read.
EndCallBegin(w) ==
    /\ Accept(w)
    /\ \E id \in ConvIds :
          /\ conv_id' = [conv_id EXCEPT ![w] = id]
          /\ conversation' =
                [conversation EXCEPT ![w] = Some(conversations_collection[id])]
    /\ Goto(w, "ec_eval")
    /\ UNCHANGED <<users_collection, conversations_collection, user_response>>
    /\ UNCHANGED <<exvars, scvars>>

\* Lines 417-461: the evaluator call, the parse of its answer, the save of the
\* feedback and the building of the response body.
EndCallEvaluate(w) ==
    /\ pc[w] = "ec_eval"
    /\ \E outcome \in EvalOutcomes :
          LET feedback == ParseFeedback(FeedbackText(outcome))
          IN  /\ conversations_collection' =
                    SetFeedback(conversations_collection, conv_id[w], feedback)
              /\ Respond(w, IF ResponseBuilds(feedback) THEN 200 ELSE 500)
    /\ UNCHANGED <<users_collection, nreq>>
    /\ UNCHANGED <<exvars, scvars>>

\* --------------------------------------------------------- specifications
Step(w) ==
    \/ StartCallReject(w) \/ StartCallBegin(w) \/ StartCallOpener(w)
    \/ StartCallTTS(w)
    \/ ProcessAudioReject(w) \/ ProcessAudioBegin(w) \/ ProcessAudioTranscribe(w)
    \/ ProcessAudioReply(w) \/ ProcessAudioTTS(w)
    \/ EndCallReject(w) \/ EndCallBegin(w) \/ EndCallEvaluate(w)

\* Requests are served by concurrent worker threads.
Next == CreateUser \/ \E w \in Workers : Step(w)

Spec == Init /\ [][Next]_vars

\* One request at a time: a worker takes a step only while the others idle.
OthersIdle(w) == \A o \in Workers \ {w} : pc[o] = "idle"
Alone(w, step) == OthersIdle(w) /\ step

SeqNext ==
    \/ CreateUser
    \/ \E w \in Workers :
          \/ Alone(w, StartCallReject(w))
          \/ Alone(w, StartCallBegin(w))
          \/ Alone(w, StartCallOpener(w))
          \/ Alone(w, StartCallTTS(w))
          \/ Alone(w, ProcessAudioReject(w))
          \/ Alone(w, ProcessAudioBegin(w))
          \/ Alone(w, ProcessAudioTranscribe(w))
          \/ Alone(w, ProcessAudioReply(w))
          \/ Alone(w, ProcessAudioTTS(w))
          \/ Alone(w, EndCallReject(w))
          \/ Alone(w, EndCallBegin(w))
          \/ Alone(w, EndCallEvaluate(w))

SeqSpec == Init /\ [][SeqNext]_vars

\* Concurrent worker threads again, with a smaller budget of requests.
Within(step) == step /\ nreq' <= MaxOverlap

OverlapNext ==
    \/ CreateUser
    \/ \E w \in Workers :
          \/ Within(StartCallReject(w))
          \/ Within(StartCallBegin(w))
          \/ Within(StartCallOpener(w))
          \/ Within(StartCallTTS(w))
          \/ Within(ProcessAudioReject(w))
          \/ Within(ProcessAudioBegin(w))
          \/ Within(ProcessAudioTranscribe(w))
          \/ Within(ProcessAudioReply(w))
          \/ Within(ProcessAudioTTS(w))
          \/ Within(EndCallReject(w))
          \/ Within(EndCallBegin(w))
          \/ Within(EndCallEvaluate(w))

OverlapSpec == Init /\ [][OverlapNext]_vars

\* _extract_user_utterances on its own, over every small conversation array.
ExChars == {"a", " "}
ExTexts == UNION {[1..n -> ExChars] : n \in 0..ExMaxLen}
ExUserTexts == {None} \cup {Some(t) : t \in ExTexts}
ExTurns == {Turn(0, ut, <<"h", "i">>) : ut \in ExUserTexts}
ExConversations == UNION {[1..n -> ExTurns] : n \in 0..ExMaxTurns}

ExtractInit ==
    /\ AppInit
    /\ ScenarioIdle
    /\ ex_turns \in ExConversations
    /\ ex_max_chars \in 0..ExMaxChars
    /\ ex_result = None

ExtractCall ==
    /\ IsNone(ex_result)
    /\ ex_result' = Some(ExtractUserUtterances(ex_turns, ex_max_chars))
    /\ UNCHANGED <<appvars, ex_turns, ex_max_chars, scvars>>

ExtractNext == ExtractCall

ExtractSpec == ExtractInit /\ [][ExtractNext]_vars

\* find_scenario_key_by_title on its own, over every small catalog and title.
ScKeys == {<<"office">>, <<"cafe">>, <<"bank">>}
ScEntryTitles == { <<"O", "f">>, <<"c">>, << >> }
ScEntries == [key : ScKeys, title : ScEntryTitles]
\* A catalog is a JSON object: its keys are distinct.
ScCatalogs ==
    UNION {{c \in [1..n -> ScEntries] :
               \A i, j \in 1..n : c[i].key = c[j].key => i = j}
           : n \in 0..MaxScenarios}
ScTitles == { << >>, <<"o", "f">>, <<"O", "F">>, <<"O", "f">>, <<"c">>,
              <<"z">>, <<"office">>, <<"o">> }

ScenarioInit ==
    /\ AppInit
    /\ ExtractIdle
    /\ sc_catalog \in ScCatalogs
    /\ sc_title \in ScTitles
    /\ sc_result = None

ScenarioCall ==
    /\ IsNone(sc_result)
    /\ \E key \in FindScenarioKeyByTitle(sc_catalog, sc_title) :
          sc_result' = Some(key)
    /\ UNCHANGED <<appvars, exvars, sc_catalog, sc_title>>

ScenarioNext == ScenarioCall

ScenarioSpec == ScenarioInit /\ [][ScenarioNext]_vars

\* ------------------------------------------------------------------ claims
TurnsOf(id) == conversations_collection[id].conversation
OpenPositions(turns) == {i \in 1..Len(turns) : IsNone(turns[i].user_text)}
AllIdle == \A w \in Workers : pc[w] = "idle"

\* C1: with requests handled one at a time, in every reachable state of every
\* session at most one turn has user_text unset, and such a turn is the last
\* one and carries the highest index.
C1_SingleOpenTurn ==
    \A id \in ConvIds :
       LET turns == TurnsOf(id)
           open == OpenPositions(turns)
       IN  /\ Cardinality(open) <= 1
           /\ \A i \in open :
                 /\ i = Len(turns)
                 /\ \A j \in 1..Len(turns) : j # i => turns[j].turn < turns[i].turn

\* C1 witness: a session that was closed once and then took two user turns,
\* the last of them ending in a synthesis failure.
C1_Witness ==
    /\ AllIdle
    /\ response = Some(500)
    /\ \E id \in ConvIds :
          /\ Len(TurnsOf(id)) = 3
          /\ conversations_collection[id].grammar_feedback # JNull

\* C2: overlapping process_audio requests on one session are mutually
\* excluded, so that every turn with user_text unset is the last turn of its
\* session in every reachable state.
C2_OpenTurnIsLastUnderOverlap ==
    \A id \in ConvIds :
       \A i \in 1..Len(TurnsOf(id)) :
          IsNone(TurnsOf(id)[i].user_text) => i = Len(TurnsOf(id))

\* C3: a process_audio call that overlaps no other request, finds the latest
\* turn open and gets a transcript closes that turn with the transcript and
\* appends exactly one open turn numbered one higher; no other turn changes.
C3_SubmitClosesAndAppends ==
    [][\A w \in Workers :
          (/\ pc[w] = "pa_reply"
           /\ pc'[w] = "pa_tts"
           /\ IsOpen(Last(Get(conversation[w]).conversation)))
          => LET before == Get(conversation[w]).conversation
                 after == conversations_collection'[conv_id[w]].conversation
                 n == Len(before)
             IN  /\ Len(after) = n + 1
                 /\ \A i \in 1..(n - 1) : after[i] = before[i]
                 /\ after[n] = [before[n] EXCEPT !.user_text = Some(user_response[w])]
                 /\ after[n + 1].turn = before[n].turn + 1
                 /\ IsNone(after[n + 1].user_text)
                 /\ after[n + 1].ai_text # << >>]_vars

\* C3 witness: the call has appended the third turn after an empty transcript.
C3_Witness ==
    \E w \in Workers :
       /\ pc[w] = "pa_tts"
       /\ user_response[w] = << >>
       /\ Len(TurnsOf(conv_id[w])) = 3
       /\ TurnsOf(conv_id[w])[2].user_text = Some(<< >>)

\* C4: once start_call has stored the opener, and until it returns, the new
\* session holds exactly one turn: number 0, ai_text non-empty, user_text
\* unset, whatever the Dialogue Provider returned or raised.
C4_OpenSessionOneTurn ==
    \A w \in Workers :
       pc[w] = "sc_tts"
       => LET turns == TurnsOf(conv_id[w])
          IN  /\ Len(turns) = 1
              /\ turns[1].turn = 0
              /\ turns[1].ai_text # << >>
              /\ IsNone(turns[1].user_text)

\* C4 witness: the opener was stored after the Dialogue Provider raised.
C4_Witness ==
    \E w \in Workers :
       pc[w] = "sc_tts" /\ TurnsOf(conv_id[w])[1].ai_text = OPENER_ERROR

\* C5: under any interleaving, the turn at position i of a session's turns
\* has index i (0-based), so indices are unique and increasing.
C5_IndexIsPosition ==
    \A id \in ConvIds :
       \A i \in 1..Len(TurnsOf(id)) : TurnsOf(id)[i].turn = i - 1

\* C6: under any interleaving, a user_text that has been set is never changed
\* by a later step.
C6_UserTextSetOnce ==
    [][\A id \in ConvIds :
          \A i \in 1..Len(TurnsOf(id)) :
             ~IsNone(TurnsOf(id)[i].user_text)
             => conversations_collection'[id].conversation[i].user_text
                   = TurnsOf(id)[i].user_text]_vars

\* The feedback end_call has just saved, in a step that ends the request.
EndCallReturns(w) == pc[w] = "ec_eval" /\ pc'[w] = "idle"
SavedFeedback(w) == conversations_collection'[conv_id[w]].grammar_feedback

\* C7: when the evaluator's answer is not JSON, end_call wraps the raw text,
\* saves the wrapper as the session's feedback and answers successfully.
C7_RawFeedbackReturned ==
    [][\A w \in Workers :
          (EndCallReturns(w) /\ HasKey(SavedFeedback(w), "raw"))
          => response' = Some(200)]_vars

\* C8: when the evaluator call raises, end_call saves the placeholder feedback,
\* answers successfully and leaves the session's turns as they were.
C8_FailedEvaluationReturned ==
    [][\A w \in Workers :
          (EndCallReturns(w) /\ HasKey(SavedFeedback(w), "error"))
          => /\ response' = Some(200)
             /\ conversations_collection'[conv_id[w]].conversation
                   = TurnsOf(conv_id[w])]_vars

\* The number of correction pairs of a parsed Feedback: 0 when the list is
\* null or absent.
CorrectionCount(feedback) ==
    IF HasKey(feedback, "grammar_feedback")
       /\ JGet(feedback, "grammar_feedback").t = "list"
    THEN Len(JGet(feedback, "grammar_feedback").items)
    ELSE 0

\* C9: the Feedback a session holds is count-consistent: its grammar_issues
\* equals the number of its correction pairs, whatever the evaluator sent.
C9_FeedbackCountConsistent ==
    \A id \in ConvIds :
       LET feedback == conversations_collection[id].grammar_feedback
       IN  HasKey(feedback, "grammar_issues")
           => JGet(feedback, "grammar_issues").n = CorrectionCount(feedback)

\* The utterances of a conversation array: the stripped, non-empty user_text
\* values, oldest first.
NonEmpty(t) == t # << >>
Utterances(turns) ==
    SelectSeq([i \in 1..Len(turns) |->
                  IF IsNone(turns[i].user_text) THEN << >>
                  ELSE Strip(Get(turns[i].user_text))],
              NonEmpty)

RECURSIVE TotalLen(_)
TotalLen(us) == IF us = << >> THEN 0 ELSE Len(Head(us)) + TotalLen(Tail(us))

SuffixFrom(us, k) == SubSeq(us, k, Len(us))

\* The longest suffix within the budget, or the most recent utterance alone
\* when that one exceeds the budget by itself.
BudgetSuffix(us, max_chars) ==
    LET fits == {k \in 1..Len(us) : TotalLen(SuffixFrom(us, k)) <= max_chars}
    IN  IF fits = {} THEN SuffixFrom(us, Len(us))
        ELSE SuffixFrom(us, CHOOSE k \in fits : \A j \in fits : k <= j)

\* C10: _extract_user_utterances returns the lines of the longest suffix of
\* the utterances whose lengths sum to at most max_chars (the most recent
\* utterance alone when it is longer than max_chars), and the placeholder when
\* there is no utterance.
C10_ExtractionIsBudgetSuffix ==
    ~IsNone(ex_result)
    => Get(ex_result) =
          IF Utterances(ex_turns) = << >> THEN PLACEHOLDER
          ELSE JoinLines(BudgetSuffix(Utterances(ex_turns), ex_max_chars))

\* C10 witness: three utterances, the oldest dropped and the two recent kept.
C10_Witness ==
    /\ ~IsNone(ex_result)
    /\ Len(Utterances(ex_turns)) = 3
    /\ TotalLen(Utterances(ex_turns)) > ex_max_chars
    /\ Get(ex_result) = JoinLines(SuffixFrom(Utterances(ex_turns), 2))

ScKeysOf(catalog) == {catalog[i].key : i \in 1..Len(catalog)}
\* The entries whose title equals `title` when case is ignored.
ScMatches(catalog, title) ==
    {i \in 1..Len(catalog) : Lower(catalog[i].title) = Lower(title)}
ScWanted == sc_title # << >> /\ ScMatches(sc_catalog, sc_title) # {}

\* C11: find_scenario_key_by_title never fails (every call has a key to
\* return), and the key it returns is: for a non-empty title that equals,
\* ignoring case, the title of some catalog entry, the key of an entry with
\* that title; for an empty title or a title that matches no entry (a
\* string that is a catalog key but no title included), some key of the
\* catalog when the catalog has entries, and the fixed key "General" when
\* the catalog is empty.
C11_ScenarioKeyResolved ==
    /\ FindScenarioKeyByTitle(sc_catalog, sc_title) # {}
    /\ ~IsNone(sc_result) =>
          IF ScWanted
          THEN \E i \in ScMatches(sc_catalog, sc_title) :
                  sc_catalog[i].key = Get(sc_result)
          ELSE IF sc_catalog # << >>
               THEN Get(sc_result) \in ScKeysOf(sc_catalog)
               ELSE Get(sc_result) = GENERAL

\* A title written in another case than the title of the second entry of a
\* two-entry catalog was answered with the key of that entry.
C11_Witness ==
    /\ Len(sc_catalog) = 2
    /\ ScMatches(sc_catalog, sc_title) = {2}
    /\ sc_title # << >> /\ sc_title # sc_catalog[2].title
    /\ sc_result = Some(sc_catalog[2].key)

\* The step in which the transcription of worker w raises: the request ends
\* at line 333.
TranscriptionFails(w) == pc[w] = "pa_stt" /\ pc'[w] = "idle"

\* C12: with requests handled one at a time, a process_audio whose
\* transcription fails answers with an error and leaves the store exactly as
\* it was (every document's turns and feedback), ends without reaching the
\* Dialogue Provider or the speech synthesis, and leaves the latest turn of
\* its conversation open for the next process_audio.
C12_FailedTranscriptionChangesNothing ==
    [][\A w \in Workers :
          TranscriptionFails(w) =>
             /\ response' = Some(500)
             /\ conversations_collection' = conversations_collection
             /\ users_collection' = users_collection
             /\ pc'[w] \notin {"pa_reply", "pa_tts"}
             /\ IsOpen(Last(conversations_collection'[conv_id[w]].conversation))]_vars

\* A start_call and a process_audio were accepted, the second one failed and
\* the conversation still has its opening turn only.
C12_Witness ==
    /\ AllIdle /\ nreq = 2 /\ response = Some(500)
    /\ Len(conversations_collection) = 1
    /\ Len(TurnsOf(1)) = 1 /\ IsOpen(TurnsOf(1)[1])
    /\ conversations_collection[1].grammar_feedback = JNull

\* The step in which worker w calls the speech synthesis of process_audio.
Synthesis(w) == pc[w] = "pa_tts" /\ pc'[w] = "idle"

\* C13: with requests handled one at a time, when process_audio calls the
\* speech synthesis the store already holds the transcript on the turn that
\* was open and, after it, the new AI turn, open and numbered one more; a
\* failed synthesis answers with an error and takes nothing of that back.
C13_TextPersistedBeforeSynthesis ==
    [][\A w \in Workers :
          Synthesis(w) =>
             LET old == Get(conversation[w]).conversation
                 now == conversations_collection'[conv_id[w]].conversation
             IN  /\ response' \in {Some(200), Some(500)}
                 /\ conversations_collection' = conversations_collection
                 /\ Len(now) = Len(old) + 1
                 /\ \A i \in 1..Len(old) - 1 : now[i] = old[i]
                 /\ now[Len(old)] =
                       [old[Len(old)] EXCEPT !.user_text = Some(user_response[w])]
                 /\ IsOpen(Last(now))
                 /\ Last(now).turn = Last(old).turn + 1
                 /\ OpenPositions(now) = {Len(now)}]_vars

\* A start_call and a process_audio were accepted, the synthesis of the
\* second failed, and the conversation has its closed opening turn and the
\* new open turn.
C13_Witness ==
    /\ AllIdle /\ nreq = 2 /\ response = Some(500)
    /\ Len(conversations_collection) = 1
    /\ Len(TurnsOf(1)) = 2
    /\ ~IsNone(TurnsOf(1)[1].user_text) /\ IsOpen(TurnsOf(1)[2])
    /\ conversations_collection[1].grammar_feedback = JNull

\* C14: a request answered 400 (a required field missing, or the user or the
\* conversation it names not in the store) leaves every collection as it
\* was and starts no handler work: no worker moves towards a provider call.
C14_RejectionChangesNothing ==
    [][response' = Some(400) =>
          /\ conversations_collection' = conversations_collection
          /\ users_collection' = users_collection
          /\ pc' = pc]_vars

\* A request was rejected while the store held a conversation.
C14_Witness ==
    /\ response = Some(400)
    /\ conversations_collection # << >>
    /\ AllIdle

\* The Feedback the prompt asks for when there is nothing to correct
\* (line 244): grammar_feedback null and grammar_issues 0.
NoIssuesFeedback == FeedbackJson(JNull, 0)

\* C15: when the evaluator answers with the well-formed Feedback that has
\* grammar_issues 0 and grammar_feedback null, end_call saves it and answers
\* successfully.
C15_NoIssuesFeedbackReturned ==
    [][\A w \in Workers :
          (EndCallReturns(w) /\ SavedFeedback(w) = NoIssuesFeedback)
          => response' = Some(200)]_vars

\* The document worker w read at line 328 and the turn it took for the latest.
Snapshot(w) == Get(conversation[w]).conversation
\* The step in which worker w has its transcript: lines 333-348.
Transcribed(w) == pc[w] = "pa_stt" /\ pc'[w] = "pa_reply"
\* The positions of conversation id whose turn the step changes.
Written(id) ==
    {i \in 1..Len(TurnsOf(id)) :
        conversations_collection'[id].conversation[i] # TurnsOf(id)[i]}

\* C16: whenever process_audio writes a transcript, the turn it writes is the
\* last element of the conversation array it read and found open, never an
\* earlier turn, also after overlapping requests left two turns with the
\* same number.
C16_TranscriptOnLatestTurn ==
    [][\A w \in Workers :
          Transcribed(w) => Written(conv_id[w]) \subseteq {Len(Snapshot(w))}]_vars

\* The latest turn of the document worker w read has its user_text set.
FoundClosed(w) == ~IsNone(Last(Snapshot(w)).user_text)

\* C17: a process_audio that finds the latest turn closed writes no
\* transcript (its transcription step leaves every document as it was) and
\* goes on to append exactly one turn, open and numbered one more than the
\* latest turn it read, leaving every turn already stored unchanged.
C17_ClosedLatestTurnKept ==
    [][\A w \in Workers :
          /\ (pc[w] = "pa_stt" /\ pc'[w] # "pa_stt" /\ Snapshot(w) # << >>
                 /\ FoundClosed(w))
             => conversations_collection' = conversations_collection
          /\ (pc[w] = "pa_reply" /\ pc'[w] # "pa_reply" /\ FoundClosed(w))
             => /\ pc'[w] = "pa_tts"
                /\ \E t \in {Last(conversations_collection'[conv_id[w]].conversation)} :
                      /\ conversations_collection' =
                            [conversations_collection EXCEPT
                                ![conv_id[w]].conversation = Append(@, t)]
                      /\ IsNone(t.user_text) /\ t.ai_text # << >>
                      /\ t.turn = Last(Snapshot(w)).turn + 1]_vars

\* A process_audio that read a closed latest turn has appended its turn.
C17_Witness ==
    \E w \in Workers :
       /\ pc[w] = "pa_tts"
       /\ FoundClosed(w)
       /\ Last(TurnsOf(conv_id[w])).turn = Last(Snapshot(w)).turn + 1
====
